---- MODULE Spec2Model ----
(***************************************************************************)
(* A model of StudentDataAnalyser (src/tut01.py): one analyser instance,   *)
(* the files uploaded to it, and the two group allocators with the        *)
(* statistics table each of them writes.                                   *)
(*                                                                         *)
(* Strings are TLA+ strings; Python's comparison of strings (sorted(),     *)
(* sort_values) is modelled by StrLess, the lexicographic order over the   *)
(* characters of Alphabet, which lists them in code-point order.           *)
(* A Python list is a sequence (index i of the list is index i+1 here); a  *)
(* Python dict is a sequence of [key, value] entries in insertion order.   *)
(***************************************************************************)
EXTENDS Integers, Sequences, FiniteSets, TLC

\* Bounds of the model.
MaxPerBranch == 5
MaxGroups == 3

--------------------------------------------------------------------------
\* Strings and their order.

Alphabet == "0123456789ABCDEFGHIJKLMNOPQRSTUVWXYZ"

\* ord(c), up to the offset of the first character.
CodePoint ==
    [c \in {SubSeq(Alphabet, i, i) : i \in 1..Len(Alphabet)} |->
        CHOOSE i \in 1..Len(Alphabet) : SubSeq(Alphabet, i, i) = c]

Ord(c) == CodePoint[c]

Min(a, b) == IF a <= b THEN a ELSE b

\* s < t for Python strings.
RECURSIVE StrLess(_, _)
StrLess(s, t) ==
    IF Len(t) = 0 THEN FALSE
    ELSE IF Len(s) = 0 THEN TRUE
    ELSE LET a == Ord(SubSeq(s, 1, 1))
             b == Ord(SubSeq(t, 1, 1))
         IN  IF a # b THEN a < b
             ELSE StrLess(SubSeq(s, 2, Len(s)), SubSeq(t, 2, Len(t)))

\* s[lo:hi] for 0 <= lo <= hi: the characters at 0-based positions lo..hi-1
\* that exist.
Slice(s, lo, hi) == SubSeq(s, lo + 1, Min(hi, Len(s)))

--------------------------------------------------------------------------
\* Python dicts, in insertion order.

Keys(d) == [i \in 1..Len(d) |-> d[i].key]

KeySet(d) == {d[i].key : i \in 1..Len(d)}

Get(d, k) == d[CHOOSE i \in 1..Len(d) : d[i].key = k].value

\* d[k] = v: an existing key keeps its place, a new key goes last.
DictSet(d, k, v) ==
    IF k \in KeySet(d)
    THEN [i \in 1..Len(d) |-> IF d[i].key = k THEN [key |-> k, value |-> v] ELSE d[i]]
    ELSE Append(d, [key |-> k, value |-> v])

--------------------------------------------------------------------------
\* Sorting.

\* sorted(s), where less[i][j] tells whether s[i] orders before s[j]: the
\* element at index i goes behind every element that is less and behind the
\* equal ones that stand before it, so equal elements keep their order
\* (Python's sort is stable, also with reverse=True).
StableSort(s, less) ==
    LET Before(j, i) == less[j][i] \/ (~less[i][j] /\ j < i)
        place == [i \in 1..Len(s) |-> Cardinality({j \in 1..Len(s) : Before(j, i)}) + 1]
    IN  [p \in 1..Len(s) |-> s[CHOOSE i \in 1..Len(s) : place[i] = p]]

\* sorted(self.branches.keys())
UnsortedKeys(d) == Keys(d)

SortedKeys(d) ==
    LET ks == Keys(d)
    IN  StableSort(ks, [i \in 1..Len(ks) |-> [j \in 1..Len(ks) |-> StrLess(ks[i], ks[j])]])

\* DataFrame.sort_values('Name'): ascending by Name.
SortValuesByName(rows) ==
    StableSort(rows, [i \in 1..Len(rows) |-> [j \in 1..Len(rows) |->
                        StrLess(rows[i].Name, rows[j].Name)]])

\* Series.unique(): the distinct values in order of first appearance.
RECURSIVE Unique(_)
Unique(s) ==
    IF s = <<>> THEN <<>>
    ELSE LET u == Unique(SubSeq(s, 1, Len(s) - 1))
         IN  IF \E i \in 1..Len(u) : u[i] = s[Len(s)] THEN u ELSE Append(u, s[Len(s)])

--------------------------------------------------------------------------
\* Uploaded files.

RequiredCols == {"Roll", "Name", "Email"}

BranchCodes == {"AI", "CB"}

\* The orders in which the branch codes can first appear in a file.
AppearanceOrders == {<<"AI", "CB">>, <<"CB", "AI">>}

Letter(i) == SubSeq(Alphabet, 10 + i, 10 + i)

\* The i-th student of branch b: characters 5-6 of the roll are the branch.
Student(b, i) ==
    [Roll  |-> "1401" \o b \o "0" \o ToString(i),
     Name  |-> Letter(i),
     Email |-> "S" \o ToString(i)]

\* n students of branch b as a file lists them, names descending.
Block(b, n) == [k \in 1..n |-> Student(b, n + 1 - k)]

\* A well-formed file: the students of the first branch, then of the second.
GoodFile(appearance, count) ==
    [readable    |-> TRUE,
     columns     |-> RequiredCols,
     roll_is_str |-> TRUE,
     rows        |-> Block(appearance[1], count[appearance[1]])
                       \o Block(appearance[2], count[appearance[2]])]

GoodFiles ==
    {GoodFile(a, c) : a \in AppearanceOrders, c \in [BranchCodes -> 0..MaxPerBranch]}

\* A record without column c.
DropColumn(r, c) == [f \in (DOMAIN r) \ {c} |-> r[f]]

\* Files that lack one required column.
MissingColumnFiles ==
    {[readable    |-> TRUE,
      columns     |-> RequiredCols \ {c},
      roll_is_str |-> TRUE,
      rows        |-> [k \in 1..n |-> DropColumn(Student(b, k), c)]] :
        c \in RequiredCols, b \in BranchCodes, n \in 0..1}

\* A file pandas cannot parse, and one whose Roll column holds numbers
\* (roll_is_str tells the column's dtype; the digits are kept as text).
UnreadableFile ==
    [readable |-> FALSE, columns |-> {}, roll_is_str |-> FALSE, rows |-> <<>>]

NumericRollFile ==
    [readable    |-> TRUE,
     columns     |-> RequiredCols,
     roll_is_str |-> FALSE,
     rows        |-> <<[Roll |-> "14010001", Name |-> "A", Email |-> "S1"]>>]

UploadedFiles ==
    GoodFiles \cup MissingColumnFiles \cup {UnreadableFile, NumericRollFile}

--------------------------------------------------------------------------
\* The analyser.

VARIABLES
    students_df,   \* self.students_df
    branches,      \* self.branches
    op,            \* the method that ran last
    ret,           \* what load_data returned
    num_groups,    \* the argument of the allocator that ran last
    order,         \* the order in which that allocator took the branches
    groups,        \* the groups it returned
    stats          \* the rows of the statistics table it wrote

vars == <<students_df, branches, op, ret, num_groups, order, groups, stats>>

\* self.students_df = None
NoneDF == [none |-> TRUE]

\* pd.read_csv / pd.read_excel of a readable file.
ReadFile(f) == [columns |-> f.columns, rows |-> f.rows]

\* df['Branch'] = df['Roll'].str[4:6]
WithBranch(df) ==
    [columns |-> df.columns \cup {"Branch"},
     rows    |-> [i \in 1..Len(df.rows) |->
                    [f \in (DOMAIN df.rows[i]) \cup {"Branch"} |->
                        IF f = "Branch" THEN Slice(df.rows[i].Roll, 4, 6)
                        ELSE df.rows[i][f]]]]

BranchColumn(df) == [i \in 1..Len(df.rows) |-> df.rows[i].Branch]

\* df[df['Branch'] == branch]
RowsOfBranch(df, branch) == SelectSeq(df.rows, LAMBDA r : r.Branch = branch)

\* The branches of df in order of first appearance, each with its rows sorted
\* by name: what the loop over df['Branch'].unique() assigns, in its order.
BranchStudents(df) ==
    LET names == Unique(BranchColumn(df))
    IN  [k \in 1..Len(names) |->
            [key   |-> names[k],
             value |-> SortValuesByName(RowsOfBranch(df, names[k]))]]

\* self.branches[branch] = ... for each of them: self.branches is not emptied
\* first.
RECURSIVE UpdateBranches(_, _)
UpdateBranches(d, entries) ==
    IF entries = <<>> THEN d
    ELSE UpdateBranches(DictSet(d, Head(entries).key, Head(entries).value),
                        Tail(entries))

\* The files load_data accepts.
Accepted(f) == f.readable /\ RequiredCols \subseteq f.columns /\ f.roll_is_str

\* The frame with its Branch column and the branches of each accepted file
\* (a table of WithBranch and BranchStudents, computed once per file).
Parsed ==
    [f \in {g \in UploadedFiles : Accepted(g)} |->
        LET df == WithBranch(ReadFile(f))
        IN  [df |-> df, branch_students |-> BranchStudents(df)]]

--------------------------------------------------------------------------
\* The allocators.

RECURSIVE SumSeq(_)
SumSeq(s) == IF s = <<>> THEN 0 ELSE Head(s) + SumSeq(Tail(s))

\* [[] for _ in range(num_groups)]
EmptyGroups(n) == [i \in 1..n |-> <<>>]

\* groups[current_group].append(student.to_dict())
PlaceStudentOverwrite(gs, current_group, student) ==
    [gs EXCEPT ![current_group + 1] = <<student>>]

PlaceStudent(gs, current_group, student) ==
    [gs EXCEPT ![current_group + 1] = Append(@, student)]

\* current_group = (current_group + 1) % num_groups
NextGroupStuck(current_group, n) == current_group

NextGroupSkip(current_group, n) == (current_group + 2) % n

NextGroup(current_group, n) == (current_group + 1) % n

\* for _, student in self.branches[branch].iterrows(): the round-robin step.
RECURSIVE RoundRobinStudents(_, _, _)
RoundRobinStudents(students, st, n) ==
    IF students = <<>> THEN st
    ELSE RoundRobinStudents(
            Tail(students),
            [groups        |-> PlaceStudent(st.groups, st.current_group, Head(students)),
             current_group |-> NextGroup(st.current_group, n)],
            n)

\* for branch in branch_names: current_group carries over to the next branch.
RECURSIVE RoundRobinBranches(_, _, _, _)
RoundRobinBranches(names, d, st, n) ==
    IF names = <<>> THEN st
    ELSE RoundRobinBranches(Tail(names), d,
                            RoundRobinStudents(Get(d, Head(names)), st, n), n)

\* The groups of create_and_save_branchwise_groups(n).
BranchwiseGroups(d, n) ==
    RoundRobinBranches(SortedKeys(d), d,
                       [groups |-> EmptyGroups(n), current_group |-> 0], n).groups

\* sorted(self.branches.items(), key=lambda x: len(x[1]), reverse=True):
\* largest first, branches of equal size in the order of self.branches.
SortedBySizeThenCode(d) ==
    StableSort(d, [i \in 1..Len(d) |-> [j \in 1..Len(d) |->
                    \/ Len(d[i].value) > Len(d[j].value)
                    \/ /\ Len(d[i].value) = Len(d[j].value)
                       /\ StrLess(d[i].key, d[j].key)]])

SortedBySize(d) ==
    StableSort(d, [i \in 1..Len(d) |-> [j \in 1..Len(d) |->
                    Len(d[i].value) > Len(d[j].value)]])

\* sum(len(students) for students in self.branches.values())
TotalStudents(d) == SumSeq([i \in 1..Len(d) |-> Len(d[i].value)])

\* math.ceil(total_students / num_groups)
TargetSizeFloor(total_students, n) == total_students \div n

TargetSize(total_students, n) == (total_students + n - 1) \div n

\* len(groups[current_group]) >= target_size and current_group < num_groups - 1
MoveToNextGroupLate(gs, current_group, target_size, n) ==
    Len(gs[current_group + 1]) > target_size /\ current_group < n - 1

MoveToNextGroup(gs, current_group, target_size, n) ==
    Len(gs[current_group + 1]) >= target_size /\ current_group < n - 1

\* for _, student in students.iterrows(): move on if the group is full, append.
RECURSIVE UniformStudents(_, _, _, _)
UniformStudents(students, st, target_size, n) ==
    IF students = <<>> THEN st
    ELSE LET g == IF MoveToNextGroup(st.groups, st.current_group, target_size, n)
                  THEN st.current_group + 1
                  ELSE st.current_group
         IN  UniformStudents(
                Tail(students),
                [groups        |-> PlaceStudent(st.groups, g, Head(students)),
                 current_group |-> g],
                target_size, n)

\* for branch_name, students in sorted_branches
RECURSIVE UniformBranches(_, _, _, _)
UniformBranches(sorted_branches, st, target_size, n) ==
    IF sorted_branches = <<>> THEN st
    ELSE UniformBranches(
            Tail(sorted_branches),
            UniformStudents(Head(sorted_branches).value, st, target_size, n),
            target_size, n)

\* The groups of create_and_save_uniform_groups(n).
UniformGroups(d, n) ==
    UniformBranches(SortedBySize(d),
                    [groups |-> EmptyGroups(n), current_group |-> 0],
                    TargetSize(TotalStudents(d), n), n).groups

--------------------------------------------------------------------------
\* save_statistics.

\* len(group_df[group_df['Branch'] == branch])
CountBranch(group, branch) == Len(SelectSeq(group, LAMBDA r : r.Branch = branch))

\* total = 0; total += count for every branch
RowTotalLast(counts) == IF counts = <<>> THEN 0 ELSE counts[Len(counts)]

RowTotal(counts) == SumSeq(counts)

\* The row of group i (1-based): its label, its counts in the order of
\* branch_names, its total.
StatsRow(i, group, branch_names) ==
    LET counts == [k \in 1..Len(branch_names) |-> CountBranch(group, branch_names[k])]
    IN  [Group |-> "G" \o ToString(i), Counts |-> counts, Total |-> RowTotal(counts)]

\* for i, group in enumerate(groups): if group: ... stats_data.append(row)
RECURSIVE StatsRows(_, _, _)
StatsRows(gs, i, branch_names) ==
    IF i > Len(gs) THEN <<>>
    ELSE (IF gs[i] # <<>> THEN <<StatsRow(i, gs[i], branch_names)>> ELSE <<>>)
            \o StatsRows(gs, i + 1, branch_names)

\* The rows save_statistics(groups, filename) writes.
SaveStatistics(gs, d) == StatsRows(gs, 1, SortedKeys(d))

--------------------------------------------------------------------------
\* The analyser's operations.

Init ==
    /\ students_df = NoneDF
    /\ branches = <<>>
    /\ op = "init"
    /\ ret = FALSE
    /\ num_groups = 0
    /\ order = <<>>
    /\ groups = <<>>
    /\ stats = <<>>

NoResults ==
    /\ num_groups' = 0
    /\ order' = <<>>
    /\ groups' = <<>>
    /\ stats' = <<>>

\* read_csv raises: nothing was assigned.
LoadUnreadable(f) ==
    /\ ~f.readable
    /\ op' = "load_data"
    /\ ret' = FALSE
    /\ UNCHANGED <<students_df, branches>>
    /\ NoResults

\* A required column is missing: return False after self.students_df was set.
LoadMissingColumns(f) ==
    /\ f.readable
    /\ ~(RequiredCols \subseteq f.columns)
    /\ students_df' = ReadFile(f)
    /\ op' = "load_data"
    /\ ret' = FALSE
    /\ UNCHANGED branches
    /\ NoResults

\* .str raises on a Roll column that holds no strings.
LoadRollNotStr(f) ==
    /\ f.readable
    /\ RequiredCols \subseteq f.columns
    /\ ~f.roll_is_str
    /\ students_df' = ReadFile(f)
    /\ op' = "load_data"
    /\ ret' = FALSE
    /\ UNCHANGED branches
    /\ NoResults

LoadOk(f) ==
    /\ Accepted(f)
    /\ students_df' = Parsed[f].df
    /\ branches' = UpdateBranches(branches, Parsed[f].branch_students)
    /\ op' = "load_data"
    /\ ret' = TRUE
    /\ NoResults

load_data ==
    \E f \in UploadedFiles :
        \/ LoadOk(f)
        \/ LoadUnreadable(f)
        \/ LoadMissingColumns(f)
        \/ LoadRollNotStr(f)

create_and_save_branchwise_groups ==
    \E n \in 1..MaxGroups :
        LET gs == BranchwiseGroups(branches, n)
        IN  /\ op' = "create_and_save_branchwise_groups"
            /\ num_groups' = n
            /\ order' = SortedKeys(branches)
            /\ groups' = gs
            /\ stats' = SaveStatistics(gs, branches)
            /\ UNCHANGED <<students_df, branches, ret>>

create_and_save_uniform_groups ==
    \E n \in 1..MaxGroups :
        LET gs == UniformGroups(branches, n)
        IN  /\ op' = "create_and_save_uniform_groups"
            /\ num_groups' = n
            /\ order' = Keys(SortedBySize(branches))
            /\ groups' = gs
            /\ stats' = SaveStatistics(gs, branches)
            /\ UNCHANGED <<students_df, branches, ret>>

Next ==
    \/ load_data
    \/ create_and_save_branchwise_groups
    \/ create_and_save_uniform_groups

Spec == Init /\ [][Next]_vars

\* The analyser when every load_data call succeeds.
NextAccepted ==
    \/ \E f \in UploadedFiles : LoadOk(f)
    \/ create_and_save_branchwise_groups
    \/ create_and_save_uniform_groups

SpecAccepted == Init /\ [][NextAccepted]_vars
--------------------------------------------------------------------------
\* What the properties below speak of.

AllocatorOps == {"create_and_save_branchwise_groups", "create_and_save_uniform_groups"}

\* How often x stands in the sequence s.
Occurrences(s, x) == Cardinality({i \in 1..Len(s) : s[i] = x})

Range(s) == {s[i] : i \in 1..Len(s)}

SameMultiset(s, t) ==
    \A x \in Range(s) \cup Range(t) : Occurrences(s, x) = Occurrences(t, x)

RECURSIVE Flatten(_)
Flatten(ss) == IF ss = <<>> THEN <<>> ELSE Head(ss) \o Flatten(Tail(ss))

\* Every record the category index holds.
IndexedStudents == Flatten([i \in 1..Len(branches) |-> branches[i].value])

\* ceil(a / b) by its definition: the least t with t * b >= a.
Ceil(a, b) == CHOOSE t \in 0..a : t * b >= a /\ \A u \in 0..(t - 1) : u * b < a

Max(a, b) == IF a >= b THEN a ELSE b

Abs(a) == IF a >= 0 THEN a ELSE -a

\* Where key k stands in self.branches.
KeyIndex(k) == CHOOSE i \in 1..Len(branches) : branches[i].key = k

SizeOf(k) == Len(Get(branches, k))

\* Record number k (1-based) of branch b in the index.
Nth(b, k) == Get(branches, b)[k]

\* C1: after either allocator ran with groupCount >= 2, the groups together
\* hold every record of the category index exactly as often as the index
\* holds it: none lost, none twice.
C1_Conservation ==
    (op \in AllocatorOps /\ num_groups >= 2) =>
        SameMultiset(Flatten(groups), IndexedStudents)

C1_Witness ==
    /\ op = "create_and_save_uniform_groups"
    /\ num_groups = 3
    /\ Len(branches) = 2
    /\ Len(IndexedStudents) = 7
    /\ \A i \in 1..3 : groups[i] # <<>>

\* C2: after any sequence of successful load_data calls the category index
\* holds exactly the branches and records of the dataset loaded last, nothing
\* of an earlier one.
C2_IndexIsLatestDataset ==
    (op = "load_data" /\ ret) =>
        /\ KeySet(branches) = Range(BranchColumn(students_df))
        /\ \A b \in KeySet(branches) :
                SameMultiset(Get(branches, b), RowsOfBranch(students_df, b))

\* C3: after the size-balanced allocator ran with groupCount >= 2, every
\* group but the last has at most ceil(total / groupCount) records.
C3_SizeBalanceBound ==
    (op = "create_and_save_uniform_groups" /\ num_groups >= 2) =>
        \A k \in 1..(num_groups - 1) :
            Len(groups[k]) <= Ceil(Len(IndexedStudents), num_groups)

C3_Witness ==
    /\ op = "create_and_save_uniform_groups"
    /\ num_groups >= 2
    /\ Len(groups[1]) = Ceil(Len(IndexedStudents), num_groups)
    /\ groups[num_groups] # <<>>
    /\ Len(groups[num_groups]) < Len(groups[1])

\* C4: after the round-robin allocator ran with groupCount >= 2, the records
\* of a branch that has at least groupCount records are spread so that no two
\* groups differ by more than one in how many of them they hold.
C4_RoundRobinSpread ==
    (op = "create_and_save_branchwise_groups" /\ num_groups >= 2) =>
        \A b \in KeySet(branches) :
            SizeOf(b) >= num_groups =>
                \A i, j \in 1..num_groups :
                    Abs(CountBranch(groups[i], b) - CountBranch(groups[j], b)) <= 1

C4_Witness ==
    /\ op = "create_and_save_branchwise_groups"
    /\ num_groups = 3
    /\ \A b \in BranchCodes : b \in KeySet(branches) /\ SizeOf(b) = 4
    /\ CountBranch(groups[1], "CB") = 1
    /\ CountBranch(groups[2], "CB") = 2

\* The branches whose record count is no multiple of n.
UnevenBranches(n) == {b \in KeySet(branches) : SizeOf(b) % n # 0}

\* C5: after the round-robin allocator ran with groupCount >= 2, two groups
\* differ in size by at most the number of branches whose record count is no
\* multiple of groupCount.
C5_RoundRobinSizes ==
    (op = "create_and_save_branchwise_groups" /\ num_groups >= 2) =>
        \A i, j \in 1..num_groups :
            Abs(Len(groups[i]) - Len(groups[j])) <= Cardinality(UnevenBranches(num_groups))

C5_Witness ==
    /\ op = "create_and_save_branchwise_groups"
    /\ num_groups = 2
    /\ Len(branches) = 2
    /\ Cardinality(UnevenBranches(2)) = 1
    /\ Len(groups[1]) = Len(groups[2]) + 1

\* C6 as stated: the size-balanced allocator (groupCount >= 2) takes the
\* branches by record count descending, and branches of equal count by branch
\* code ascending.
C6_TiesByCode ==
    (op = "create_and_save_uniform_groups" /\ num_groups >= 2) =>
        \A i, j \in 1..Len(order) :
            i < j => \/ SizeOf(order[i]) > SizeOf(order[j])
                     \/ /\ SizeOf(order[i]) = SizeOf(order[j])
                        /\ StrLess(order[i], order[j])

\* C6 as amended: the size-balanced allocator takes the branches by record
\* count descending, and branches of equal count in the order in which their
\* keys were inserted into self.branches.
C6_TiesByInsertion ==
    (op = "create_and_save_uniform_groups") =>
        /\ Range(order) = KeySet(branches)
        /\ \A i, j \in 1..Len(order) :
              i < j => \/ SizeOf(order[i]) > SizeOf(order[j])
                       \/ /\ SizeOf(order[i]) = SizeOf(order[j])
                          /\ KeyIndex(order[i]) < KeyIndex(order[j])

C6_Witness ==
    /\ op = "create_and_save_uniform_groups"
    /\ Keys(branches) = <<"CB", "AI">>
    /\ SizeOf("CB") = SizeOf("AI")
    /\ order = <<"CB", "AI">>
    /\ groups[1][1].Branch = "CB"

\* The index of the worked example: AI with 5 records, CB with 3, two groups.
ExampleRun ==
    /\ op = "create_and_save_branchwise_groups"
    /\ num_groups = 2
    /\ KeySet(branches) = {"AI", "CB"}
    /\ SizeOf("AI") = 5
    /\ SizeOf("CB") = 3

\* C7 as stated: in the example group 0 gets AI#1,3,5 and CB#1,3 (size 5),
\* group 1 gets AI#2,4 and CB#2 (size 3).
C7_ExampleAsStated ==
    ExampleRun =>
        /\ groups[1] = <<Nth("AI", 1), Nth("AI", 3), Nth("AI", 5), Nth("CB", 1), Nth("CB", 3)>>
        /\ groups[2] = <<Nth("AI", 2), Nth("AI", 4), Nth("CB", 2)>>

\* C7 as amended: in the example group 0 gets AI#1,3,5 and CB#2, group 1 gets
\* AI#2,4 and CB#1,3, so both have size 4.
C7_ExampleAmended ==
    ExampleRun =>
        /\ groups[1] = <<Nth("AI", 1), Nth("AI", 3), Nth("AI", 5), Nth("CB", 2)>>
        /\ groups[2] = <<Nth("AI", 2), Nth("AI", 4), Nth("CB", 1), Nth("CB", 3)>>

C7_Witness ==
    /\ ExampleRun
    /\ Keys(branches) = <<"CB", "AI">>
    /\ Len(groups[1]) = 4
    /\ Len(groups[2]) = 4

\* The 1-based numbers of the groups that hold a record.
NonEmptyGroups == {i \in 1..Len(groups) : groups[i] # <<>>}

\* C8: the statistics table of an allocator's groups has exactly one row per
\* non-empty group, each row's Total is the sum of its counts and the size of
\* its group, and the Totals add up to the number of records allocated.
C8_StatsConsistency ==
    (op \in AllocatorOps) =>
        /\ Len(stats) = Cardinality(NonEmptyGroups)
        /\ \A i \in NonEmptyGroups :
              \E r \in 1..Len(stats) :
                  /\ stats[r].Group = "G" \o ToString(i)
                  /\ stats[r].Total = SumSeq(stats[r].Counts)
                  /\ stats[r].Total = Len(groups[i])
        /\ \A r \in 1..Len(stats) : stats[r].Total = SumSeq(stats[r].Counts)
        /\ SumSeq([r \in 1..Len(stats) |-> stats[r].Total]) = Len(Flatten(groups))

C8_Witness ==
    /\ op \in AllocatorOps
    /\ num_groups = 3
    /\ Len(stats) = 2
    /\ groups[3] = <<>>
    /\ Len(stats[2].Counts) = 2
    /\ stats[2].Counts[1] > 0
    /\ stats[2].Counts[2] > 0

\* C9: a load_data that fails for a missing required column leaves
\* students_df and branches as they were before the call.
C9_MissingFieldKeepsState ==
    [][(\E f \in MissingColumnFiles : LoadMissingColumns(f)) =>
            (students_df' = students_df /\ branches' = branches)]_vars

\* C10: after the size-balanced allocator ran with groupCount >= 1, group k
\* (0-based) holds exactly min(target, max(0, total - k * target)) records,
\* target = ceil(total / groupCount): the groups fill as a prefix and the last
\* one holds no more than target.
C10_PrefixFill ==
    (op = "create_and_save_uniform_groups") =>
        LET total == Len(IndexedStudents)
            target == Ceil(total, num_groups)
        IN  \A k \in 0..(num_groups - 1) :
                Len(groups[k + 1]) = Min(target, Max(0, total - k * target))

C10_Witness ==
    /\ op = "create_and_save_uniform_groups"
    /\ num_groups = 3
    /\ Len(IndexedStudents) = 4
    /\ Len(groups[1]) = 2
    /\ Len(groups[2]) = 2
    /\ groups[3] = <<>>
====
